---- MODULE Spec2Model ----
(***************************************************************************)
(* A model of the perenual scraper: the field extractors and the crawl     *)
(* loop of main.py and the two-pass schema-union merge of merge_data.py.   *)
(*                                                                         *)
(* Text is modelled at the character level: a Python str is a sequence of  *)
(* one-character strings, so that strip/replace/lower, the CSV cell        *)
(* parsing and the sort of the column names are computed, not assumed.     *)
(***************************************************************************)
EXTENDS Integers, Sequences, FiniteSets

(***************************************************************************)
(* Bounds of the model.                                                    *)
(***************************************************************************)
\* longest raw label text drawn for the extractors
MaxLen == 3
\* longest raw value text drawn for the extractors
MaxValLen == 2
\* largest species id of a run
MaxId == 3
\* most per-page files in data/species_raw/ at a merge
MaxFiles == 2

(***************************************************************************)
(* Python str operations used by the extractors.                           *)
(***************************************************************************)
SP == " "
NL == "\n"
COLON == ":"
USCORE == "_"

\* the characters raw page text is drawn from
Alphabet == {"a", "B", SP, COLON, NL}

\* str.strip() with no argument removes these
Whitespace == {SP, NL}

\* str.lower() on one character
LowerChar(c) ==
    CASE c = "A" -> "a"
      [] c = "B" -> "b"
      [] OTHER -> c

\* str.lower()  (s is bound to the value of text, which is evaluated once)
Lower(text) ==
    CHOOSE r \in {[k \in 1..Len(s) |-> LowerChar(s[k])] : s \in {text}} : TRUE

\* str.strip(): the text from its first to its last non-whitespace character
Strip(text) ==
    CHOOSE r \in
        {LET keep == {k \in 1..Len(s) : s[k] \notin Whitespace}
         IN  IF keep = {} THEN <<>>
             ELSE SubSeq(s, CHOOSE k \in keep : \A m \in keep : k <= m,
                            CHOOSE k \in keep : \A m \in keep : k >= m) :
         s \in {text}} : TRUE

\* str.replace(old, "") for a one-character old
Remove(text, old) == SelectSeq(text, LAMBDA c : c # old)

\* str.replace(old, new) for one-character old and new
Replace(text, old, new) ==
    CHOOSE r \in {[k \in 1..Len(s) |-> IF s[k] = old THEN new ELSE s[k]] :
                    s \in {text}} : TRUE

\* main.py:35-36, the label cleaning of extract_plant_info
InfoCleanLabel(label) ==
    LET l1 == Strip(Remove(label, COLON))
    IN  Lower(Strip(Replace(l1, SP, USCORE)))

\* main.py:38-39, the value cleaning of extract_plant_info
InfoCleanValue(value) ==
    LET v1 == Strip(Remove(value, NL))
    IN  Lower(Strip(Replace(v1, SP, USCORE)))

\* main.py:79, the label cleaning of extract_care_description
CareCleanLabel(label) == Remove(Lower(Strip(label)), COLON)

\* main.py:80, the value cleaning of extract_care_description
CareCleanValue(value) == Lower(Strip(Replace(Strip(value), NL, SP)))

(***************************************************************************)
(* Python dict: a function from keys to values.                            *)
(***************************************************************************)
EmptyDict == << >>

\* d[k] = v
DictSet(d, k, v) == [x \in (DOMAIN d) \cup {k} |-> IF x = k THEN v ELSE d[x]]

\* for k, v in src.items(): d[k] = v
DictUpdate(d, src) ==
    [x \in (DOMAIN d) \cup (DOMAIN src) |-> IF x \in DOMAIN src THEN src[x] ELSE d[x]]

(***************************************************************************)
(* The page accessor (Playwright page) as the extractors see it.  A text   *)
(* read either returns the text or raises.                                 *)
(***************************************************************************)
\* inner_text() returned t
Text(t) == [ok |-> TRUE, text |-> t]
\* inner_text() raised
NoText == [ok |-> FALSE, text |-> <<>>]

\* one label/value block of the page
Block(l, v) == [label |-> l, value |-> v]

\* an extractor's outcome: a returned value, or an exception that escapes it
Returned(v) == [raised |-> FALSE, val |-> v]
Raised == [raised |-> TRUE, val |-> EmptyDict]

\* main.py:15-22, extract_scientific_name: the stripped text, "" on any failure
extract_scientific_name(page) ==
    IF page.sci.ok THEN Strip(page.sci.text) ELSE <<>>

RECURSIVE InfoLoop(_, _, _)
\* main.py:29-44, the block loop of extract_plant_info from block j on
InfoLoop(blocks, j, info_data) ==
    IF j > Len(blocks) THEN info_data
    ELSE LET b == blocks[j]
         IN  IF b.label.ok /\ b.value.ok
             THEN InfoLoop(blocks, j + 1,
                      DictSet(info_data, InfoCleanLabel(b.label.text),
                                         InfoCleanValue(b.value.text)))
             ELSE InfoLoop(blocks, j + 1, info_data)

\* main.py:24-46, extract_plant_info: count() is outside every try
extract_plant_info(page) ==
    IF ~page.infoCountOk THEN Raised
    ELSE Returned(InfoLoop(page.info, 1, EmptyDict))

\* main.py:82-86, the store of one cleaned care block
CareStore(care_data, clean_label, clean_value) ==
    IF clean_label # <<>> /\ clean_value # <<>>
    THEN DictSet(care_data, clean_label, clean_value)
    ELSE care_data

RECURSIVE CareLoop(_, _, _, _)
\* main.py:74-91, the block loop of extract_care_description from block j on
CareLoop(labels, values, j, care_data) ==
    IF j > Len(labels) THEN care_data
    ELSE IF labels[j].ok /\ values[j].ok
         THEN CareLoop(labels, values, j + 1,
                  CareStore(care_data, CareCleanLabel(labels[j].text),
                                       CareCleanValue(values[j].text)))
         ELSE CareLoop(labels, values, j + 1, care_data)

\* main.py:48-96, extract_care_description: never raises
extract_care_description(page) ==
    IF ~page.careQueryOk THEN EmptyDict
    ELSE IF Len(page.careLabels) # Len(page.careValues) THEN EmptyDict
    ELSE CareLoop(page.careLabels, page.careValues, 1, EmptyDict)

\* a page holding the given info blocks and care label/value elements
Page(sci, infoCountOk, info, careQueryOk, careLabels, careValues) ==
    [sci |-> sci, infoCountOk |-> infoCountOk, info |-> info,
     careQueryOk |-> careQueryOk, careLabels |-> careLabels,
     careValues |-> careValues]

\* all texts over Alphabet of length at most n
TextsUpTo(n) == UNION {[1..k -> Alphabet] : k \in 0..n}

(***************************************************************************)
(* The record's fixed columns and str(i).                                  *)
(***************************************************************************)
DigitChars == <<"0", "1", "2", "3", "4", "5", "6", "7", "8", "9">>

RECURSIVE IntToStr(_)
\* str(n) for n >= 0
IntToStr(n) ==
    IF n < 10 THEN <<DigitChars[n + 1]>>
    ELSE IntToStr(n \div 10) \o <<DigitChars[(n % 10) + 1]>>

\* the column names main() itself sets, main.py:131 and 136
K_id == <<"i", "d">>
K_scientific_name ==
    <<"s", "c", "i", "e", "n", "t", "i", "f", "i", "c", "_", "n", "a", "m", "e">>

(***************************************************************************)
(* The merge, merge_data.py:6-50.  A per-page file is what pandas makes of *)
(* it: pd.read_csv either returns its header and rows, raises              *)
(* EmptyDataError, or raises another exception.                            *)
(***************************************************************************)
\* ord(c) for the characters of the column names
CodePoint(c) ==
    CASE c = "B" -> 66
      [] c = "_" -> 95
      [] c = "a" -> 97
      [] c = "b" -> 98
      [] c = "d" -> 100
      [] c = "i" -> 105
      [] OTHER -> 0

RECURSIVE StrLess(_, _)
\* Python's s < t on str: lexicographic by code point
StrLess(s, t) ==
    IF t = <<>> THEN FALSE
    ELSE IF s = <<>> THEN TRUE
    ELSE IF CodePoint(Head(s)) # CodePoint(Head(t))
         THEN CodePoint(Head(s)) < CodePoint(Head(t))
         ELSE StrLess(Tail(s), Tail(t))

RECURSIVE Sorted(_)
\* sorted(list(S)) for a set of str
Sorted(S) ==
    IF S = {} THEN <<>>
    ELSE LET least == CHOOSE x \in S : \A y \in S \ {x} : StrLess(x, y)
         IN  <<least>> \o Sorted(S \ {least})

\* the elements of a list
Elems(seq) == {seq[k] : k \in 1..Len(seq)}

\* list.index(x)
IndexOf(seq, x) == CHOOSE k \in 1..Len(seq) : seq[k] = x

\* the cell texts pd.read_csv reads as missing (pandas' default na_values)
NaValues ==
    {<<>>,
     <<"#", "N", "/", "A">>,
     <<"#", "N", "/", "A", " ", "N", "/", "A">>,
     <<"#", "N", "A">>,
     <<"-", "1", ".", "#", "I", "N", "D">>,
     <<"-", "1", ".", "#", "Q", "N", "A", "N">>,
     <<"-", "N", "a", "N">>,
     <<"-", "n", "a", "n">>,
     <<"1", ".", "#", "I", "N", "D">>,
     <<"1", ".", "#", "Q", "N", "A", "N">>,
     <<"<", "N", "A", ">">>,
     <<"N", "/", "A">>,
     <<"N", "A">>,
     <<"N", "U", "L", "L">>,
     <<"N", "a", "N">>,
     <<"N", "o", "n", "e">>,
     <<"n", "/", "a">>,
     <<"n", "a", "n">>,
     <<"n", "u", "l", "l">>}

Digits == {DigitChars[k] : k \in 1..10}

RECURSIVE StrToInt(_)
\* the integer a digit string denotes
StrToInt(s) ==
    IF s = <<>> THEN 0
    ELSE 10 * StrToInt(SubSeq(s, 1, Len(s) - 1))
         + ((CHOOSE k \in 1..10 : DigitChars[k] = s[Len(s)]) - 1)

TrueValues == {<<"T", "r", "u", "e">>, <<"T", "R", "U", "E">>, <<"t", "r", "u", "e">>}
FalseValues ==
    {<<"F", "a", "l", "s", "e">>, <<"F", "A", "L", "S", "E">>, <<"f", "a", "l", "s", "e">>}

NaN == [type |-> "nan"]

\* merge_data.py:42, pd.read_csv on the one cell of a column: a missing value,
\* an int64, a bool, or the text itself
ReadCell(text) ==
    IF text \in NaValues THEN NaN
    ELSE IF \A k \in 1..Len(text) : text[k] \in Digits
         THEN [type |-> "int", int |-> StrToInt(text)]
    ELSE IF text \in TrueValues THEN [type |-> "bool", bool |-> TRUE]
    ELSE IF text \in FalseValues THEN [type |-> "bool", bool |-> FALSE]
    ELSE [type |-> "str", str |-> text]

\* merge_data.py:46, DataFrame.to_csv on one value: a missing value is empty
WriteCell(value) ==
    CASE value.type = "nan" -> <<>>
      [] value.type = "int" -> IntToStr(value.int)
      [] value.type = "bool" ->
            IF value.bool THEN <<"T", "r", "u", "e">> ELSE <<"F", "a", "l", "s", "e">>
      [] OTHER -> value.str

\* a well-formed per-page file: a header and one data row
CsvFile(header, row) == [kind |-> "csv", header |-> header, rows |-> <<row>>]

\* a zero-byte file: pd.read_csv raises EmptyDataError
EmptyFile == [kind |-> "empty", header |-> <<>>, rows |-> <<>>]

\* a file whose header reads but whose rows do not parse (an unterminated
\* quote): the full read raises ParserError
BadRowsFile(header) == [kind |-> "bad_rows", header |-> header, rows |-> <<>>]

\* a file that is not UTF-8: every read raises UnicodeDecodeError
UndecodableFile == [kind |-> "undecodable", header |-> <<>>, rows |-> <<>>]

Col_a == <<"a">>
Col_ab == <<"a", "b">>
Col_B == <<"B">>

\* the per-page files a merge may find
FilePool ==
    {CsvFile(<<K_id, Col_a>>, <<<<"3">>, <<"a", SP, "B">>>>),
     CsvFile(<<Col_a, K_id>>, <<<<"B">>, <<"4">>>>),
     CsvFile(<<K_id, Col_B>>, <<<<"5">>, <<>>>>),
     CsvFile(<<K_id, Col_ab>>, <<<<"6">>, <<"n", "/", "a">>>>),
     CsvFile(<<Col_ab, Col_B>>, <<<<"0", "7">>, <<"t", "r", "u", "e">>>>),
     CsvFile(<<K_id>>, <<<<"8">>>>),
     EmptyFile,
     BadRowsFile(<<K_id, Col_a>>),
     UndecodableFile}

\* the outcome of pd.read_csv(f, nrows=0), merge_data.py:25
ReadHeader(f) ==
    CASE f.kind = "empty" -> [exc |-> "EmptyDataError", columns |-> <<>>]
      [] f.kind = "undecodable" -> [exc |-> "UnicodeDecodeError", columns |-> <<>>]
      [] OTHER -> [exc |-> "none", columns |-> f.header]

\* the outcome of pd.read_csv(f), merge_data.py:42: the frame's columns and
\* its rows of parsed cells
ReadCsv(f) ==
    CASE f.kind = "empty" -> [exc |-> "EmptyDataError", columns |-> <<>>, rows |-> <<>>]
      [] f.kind = "undecodable" ->
            [exc |-> "UnicodeDecodeError", columns |-> <<>>, rows |-> <<>>]
      [] f.kind = "bad_rows" -> [exc |-> "ParserError", columns |-> <<>>, rows |-> <<>>]
      [] OTHER ->
            [exc |-> "none", columns |-> f.header,
             rows |-> [r \in 1..Len(f.rows) |->
                         [k \in 1..Len(f.header) |-> ReadCell(f.rows[r][k])]]]

\* df.reindex(columns=final_columns) with the columns taken by position
Reindex_Positional(df, columns) ==
    [r \in 1..Len(df.rows) |->
        [k \in 1..Len(columns) |->
            IF k <= Len(df.columns) THEN df.rows[r][k] ELSE NaN]]

\* merge_data.py:44, df.reindex(columns=final_columns): each column by name,
\* NaN where the frame has no such column
Reindex(df, columns) ==
    [r \in 1..Len(df.rows) |->
        [k \in 1..Len(columns) |->
            IF columns[k] \in Elems(df.columns)
            THEN df.rows[r][IndexOf(df.columns, columns[k])]
            ELSE NaN]]

\* merge_data.py:46, df.to_csv(f_out, header=False, index=False): the lines
ToCsvLines(rows) ==
    [r \in 1..Len(rows) |-> [k \in 1..Len(rows[r]) |-> WriteCell(rows[r][k])]]

\* the consolidated file: absent, or its lines (each a list of cell texts)
NoOutput == [exists |-> FALSE, lines |-> <<>>]
Output(lines) == [exists |-> TRUE, lines |-> lines]

\* a consolidated file left by an earlier merge
OldOutput == Output(<<<<K_id>>, <<<<"1">>>>, <<<<"2">>>>>>)

(***************************************************************************)
(* The state.                                                              *)
(***************************************************************************)
\* the extractors on one block: raw texts and the two extractors' results
VARIABLES lab, val, nstep, info_data, care_data

\* the crawl loop: main()'s arguments and locals, the output directory, the
\* browser, and what the run did so far
VARIABLES start_page, end_page, min_delay, max_delay, i, pc, data, page,
          fs, fs0, open_pages, browser_open, opened, fetches, delays,
          last_delay, since_fetch, event, trail, steps

\* the merge: merge_csvs()'s locals, the consolidated file now and before the
\* merge, and the number of times the merge opened it for writing
VARIABLES files, mpc, j, all_columns, final_columns, out, out0, truncs

normVars == <<lab, val, nstep, info_data, care_data>>

crawlVars == <<start_page, end_page, min_delay, max_delay, i, pc, data, page,
               fs, fs0, open_pages, browser_open, opened, fetches, delays,
               last_delay, since_fetch, event, trail, steps>>

mergeVars == <<files, mpc, j, all_columns, final_columns, out, out0, truncs>>

vars == <<normVars, crawlVars, mergeVars>>

(***************************************************************************)
(* The extractors on one block: the raw label and value texts are drawn    *)
(* from all texts over Alphabet up to the bounds.                          *)
(***************************************************************************)
\* the page with the single block (lab, val), as the mock page of test_main.py
BlockPage ==
    Page(NoText, TRUE, <<Block(Text(lab), Text(val))>>,
         TRUE, <<Text(lab)>>, <<Text(val)>>)

\* the extractor inputs while another part of the program runs
NormIdle ==
    /\ lab = <<>>
    /\ val = <<>>
    /\ nstep = "idle"
    /\ info_data = EmptyDict
    /\ care_data = EmptyDict

\* the crawl loop while another part of the program runs
CrawlIdle ==
    /\ start_page = 0
    /\ end_page = 0
    /\ min_delay = 0
    /\ max_delay = 0
    /\ i = 0
    /\ pc = "idle"
    /\ data = EmptyDict
    /\ page = Page(NoText, FALSE, <<>>, FALSE, <<>>, <<>>)
    /\ fs = EmptyDict
    /\ fs0 = EmptyDict
    /\ open_pages = {}
    /\ browser_open = FALSE
    /\ opened = 0
    /\ fetches = 0
    /\ delays = 0
    /\ last_delay = 0
    /\ since_fetch = FALSE
    /\ event = "none"
    /\ trail = <<>>
    /\ steps = 0

\* the merge while another part of the program runs
MergeIdle ==
    /\ files = <<>>
    /\ mpc = "idle"
    /\ j = 0
    /\ all_columns = {}
    /\ final_columns = <<>>
    /\ out = NoOutput
    /\ out0 = NoOutput
    /\ truncs = 0

NormInit ==
    /\ lab \in TextsUpTo(MaxLen)
    /\ val \in TextsUpTo(MaxValLen)
    /\ nstep = "input"
    /\ info_data = EmptyDict
    /\ care_data = EmptyDict
    /\ CrawlIdle
    /\ MergeIdle

\* main.py:142, the info extractor applied to the block
ExtractInfo ==
    /\ nstep = "input"
    /\ info_data' = extract_plant_info(BlockPage).val
    /\ nstep' = "info"
    /\ UNCHANGED <<lab, val, care_data>>
    /\ UNCHANGED crawlVars
    /\ UNCHANGED mergeVars

\* main.py:149, the care extractor applied to the block
ExtractCare ==
    /\ nstep = "info"
    /\ care_data' = extract_care_description(BlockPage)
    /\ nstep' = "care"
    /\ UNCHANGED <<lab, val, info_data>>
    /\ UNCHANGED crawlVars
    /\ UNCHANGED mergeVars

NormNext == ExtractInfo \/ ExtractCare

SpecNorm == NormInit /\ [][NormNext]_vars

(***************************************************************************)
(* The crawl loop, main.py:98-170.                                         *)
(***************************************************************************)
\* a species page with every section present
FullPage ==
    Page(Text(<<SP, "B", "a">>), TRUE,
         <<Block(Text(<<"a", COLON>>), Text(<<"B", SP, "a">>))>>,
         TRUE, <<Text(<<"B", "a", COLON>>)>>, <<Text(<<"B", NL, "a">>)>>)

\* a species page whose care-description query throws
NoCarePage ==
    Page(Text(<<"a", "B">>), TRUE, <<>>, FALSE, <<>>, <<>>)

\* a drifted page: no name element, the info count throws, care blocks mismatch
DriftedPage ==
    Page(NoText, FALSE, <<>>, TRUE, <<Text(<<"a">>)>>, <<>>)

\* what a loaded species page can look like
Pages == {FullPage, NoCarePage, DriftedPage}

\* a per-page file left by an earlier run
OldFile(k) == DictSet(EmptyDict, K_id, IntToStr(k))

\* the (min_delay, max_delay) arguments of a run: 0 <= min <= max
DelayArgs == {<<0, 0>>, <<2, 3>>}

CrawlInit ==
    /\ start_page \in 1..MaxId
    /\ end_page \in (start_page + 1)..(MaxId + 1)
    /\ \E d \in DelayArgs : min_delay = d[1] /\ max_delay = d[2]
    /\ i = start_page
    /\ pc = "loop"
    /\ data = EmptyDict
    /\ page = Page(NoText, FALSE, <<>>, FALSE, <<>>, <<>>)
    /\ \E have \in SUBSET (1..MaxId) : fs = [k \in have |-> OldFile(k)]
    /\ fs0 = fs
    /\ open_pages = {}
    /\ browser_open = TRUE
    /\ opened = 0
    /\ fetches = 0
    /\ delays = 0
    /\ last_delay = 0
    /\ since_fetch = FALSE
    /\ event = "none"
    /\ trail = <<>>
    /\ steps = 0
    /\ NormIdle
    /\ MergeIdle

\* os.path.exists(file_path), main.py:118-119
Exists(k) == k \in DOMAIN fs

\* the loop without its handler: the exception leaves main()
Except_Abort ==
    /\ pc' = "done"
    /\ i' = i
    /\ event' = "raise"

\* main.py:167-168: the loop's handler; the for statement takes the next id
Except ==
    /\ pc' = "loop"
    /\ i' = i + 1
    /\ event' = "raise"

\* the existence check without its continue: the page is opened anyway
SkipExisting_Fallthrough ==
    /\ pc = "loop"
    /\ i < end_page
    /\ Exists(i)
    /\ data' = EmptyDict
    /\ open_pages' = open_pages \cup {i}
    /\ opened' = opened + 1
    /\ pc' = "goto"
    /\ event' = "opened"
    /\ UNCHANGED <<start_page, end_page, min_delay, max_delay, i, page, fs, fs0,
                   browser_open, fetches, delays, last_delay, since_fetch>>
    /\ trail' = Append(trail, i)
    /\ steps' = steps + 1
    /\ UNCHANGED normVars
    /\ UNCHANGED mergeVars

\* main.py:119-121: the per-page file exists, continue
SkipExisting ==
    /\ pc = "loop"
    /\ i < end_page
    /\ Exists(i)
    /\ i' = i + 1
    /\ event' = "skip"
    /\ UNCHANGED <<start_page, end_page, min_delay, max_delay, pc, data, page,
                   fs, fs0, open_pages, browser_open, opened, fetches, delays,
                   last_delay, since_fetch>>
    /\ trail' = Append(trail, i)
    /\ steps' = steps + 1
    /\ UNCHANGED normVars
    /\ UNCHANGED mergeVars

\* main.py:123-126: a fresh frame and a new page accessor
NewPage ==
    /\ pc = "loop"
    /\ i < end_page
    /\ ~Exists(i)
    /\ data' = EmptyDict
    /\ \/ /\ open_pages' = open_pages \cup {i}
          /\ opened' = opened + 1
          /\ pc' = "goto"
          /\ event' = "opened"
          /\ UNCHANGED i
       \/ /\ Except
          /\ UNCHANGED <<open_pages, opened>>
    /\ UNCHANGED <<start_page, end_page, min_delay, max_delay, page, fs, fs0,
                   browser_open, fetches, delays, last_delay, since_fetch>>
    /\ trail' = Append(trail, i)
    /\ steps' = steps + 1
    /\ UNCHANGED normVars
    /\ UNCHANGED mergeVars

\* main.py:127-131: load the species page, then set the id column
Goto ==
    /\ pc = "goto"
    /\ fetches' = fetches + 1
    /\ \/ /\ page' \in Pages
          /\ since_fetch' = TRUE
          /\ data' = DictSet(data, K_id, IntToStr(i))
          /\ pc' = "sci"
          /\ event' = "loaded"
          /\ UNCHANGED i
       \/ /\ Except
          /\ UNCHANGED <<page, data, since_fetch>>
    /\ UNCHANGED <<start_page, end_page, min_delay, max_delay, fs, fs0,
                   open_pages, browser_open, opened, delays, last_delay>>
    /\ UNCHANGED trail
    /\ steps' = steps + 1
    /\ UNCHANGED normVars
    /\ UNCHANGED mergeVars

\* main.py:134-139: the scientific-name step
StepSci ==
    /\ pc = "sci"
    /\ data' = DictSet(data, K_scientific_name, extract_scientific_name(page))
    /\ pc' = "info"
    /\ event' = IF page.sci.ok THEN "sci_ok" ELSE "sci_failed"
    /\ UNCHANGED <<start_page, end_page, min_delay, max_delay, i, page, fs, fs0,
                   open_pages, browser_open, opened, fetches, delays,
                   last_delay, since_fetch>>
    /\ UNCHANGED trail
    /\ steps' = steps + 1
    /\ UNCHANGED normVars
    /\ UNCHANGED mergeVars

\* main.py:142-146: the frame after the info step; nothing is added when the
\* extractor raised
WithPlantInfo(frame, plant_info) ==
    IF plant_info.raised THEN frame ELSE DictUpdate(frame, plant_info.val)

\* the info-field step without its try: the exception reaches the loop's handler
StepInfo_NoTry ==
    /\ pc = "info"
    /\ LET plant_info == extract_plant_info(page)
       IN  IF plant_info.raised
           THEN Except /\ UNCHANGED data
           ELSE /\ data' = DictUpdate(data, plant_info.val)
                /\ event' = "info_ok"
                /\ pc' = "care"
                /\ UNCHANGED i
    /\ UNCHANGED <<start_page, end_page, min_delay, max_delay, page, fs, fs0,
                   open_pages, browser_open, opened, fetches, delays,
                   last_delay, since_fetch>>
    /\ UNCHANGED trail
    /\ steps' = steps + 1
    /\ UNCHANGED normVars
    /\ UNCHANGED mergeVars

\* main.py:141-146: the info-field step; an escaping exception is logged
StepInfo ==
    /\ pc = "info"
    /\ \E plant_info \in {extract_plant_info(page)} :
          /\ data' = WithPlantInfo(data, plant_info)
          /\ event' = IF plant_info.raised THEN "info_failed" ELSE "info_ok"
    /\ pc' = "care"
    /\ UNCHANGED <<start_page, end_page, min_delay, max_delay, i, page, fs, fs0,
                   open_pages, browser_open, opened, fetches, delays,
                   last_delay, since_fetch>>
    /\ UNCHANGED trail
    /\ steps' = steps + 1
    /\ UNCHANGED normVars
    /\ UNCHANGED mergeVars

\* main.py:148-153: the care-description step
StepCare ==
    /\ pc = "care"
    /\ \E care_info \in {extract_care_description(page)} :
          data' = DictUpdate(data, care_info)
    /\ event' = IF page.careQueryOk THEN "care_ok" ELSE "care_failed"
    /\ pc' = "save"
    /\ UNCHANGED <<start_page, end_page, min_delay, max_delay, i, page, fs, fs0,
                   open_pages, browser_open, opened, fetches, delays,
                   last_delay, since_fetch>>
    /\ UNCHANGED trail
    /\ steps' = steps + 1
    /\ UNCHANGED normVars
    /\ UNCHANGED mergeVars

\* main.py:156-157: data.to_csv(file_path)
Save ==
    /\ pc = "save"
    /\ \/ /\ fs' = DictSet(fs, i, data)
          /\ pc' = "close"
          /\ event' = "saved"
          /\ UNCHANGED i
       \/ /\ Except
          /\ UNCHANGED fs
    /\ UNCHANGED <<start_page, end_page, min_delay, max_delay, data, page, fs0,
                   open_pages, browser_open, opened, fetches, delays,
                   last_delay, since_fetch>>
    /\ UNCHANGED trail
    /\ steps' = steps + 1
    /\ UNCHANGED normVars
    /\ UNCHANGED mergeVars

\* main.py:159: page.close(); when it raises the page may or may not be gone
ClosePage ==
    /\ pc = "close"
    /\ \/ /\ open_pages' = open_pages \ {i}
          /\ pc' = "sleep"
          /\ event' = "closed"
          /\ UNCHANGED i
       \/ /\ Except
          /\ \E gone \in BOOLEAN :
                open_pages' = IF gone THEN open_pages \ {i} ELSE open_pages
    /\ UNCHANGED <<start_page, end_page, min_delay, max_delay, data, page, fs,
                   fs0, browser_open, opened, fetches, delays, last_delay,
                   since_fetch>>
    /\ UNCHANGED trail
    /\ steps' = steps + 1
    /\ UNCHANGED normVars
    /\ UNCHANGED mergeVars

\* main.py:163-165: the random delay, then the for statement takes the next id
Sleep ==
    /\ pc = "sleep"
    /\ \E delay \in min_delay..max_delay : last_delay' = delay
    /\ delays' = delays + 1
    /\ since_fetch' = FALSE
    /\ pc' = "loop"
    /\ i' = i + 1
    /\ event' = "slept"
    /\ UNCHANGED <<start_page, end_page, min_delay, max_delay, data, page, fs,
                   fs0, open_pages, browser_open, opened, fetches>>
    /\ UNCHANGED trail
    /\ steps' = steps + 1
    /\ UNCHANGED normVars
    /\ UNCHANGED mergeVars

\* main.py:170: the range is exhausted; browser.close() closes every page left
BrowserClose ==
    /\ pc = "loop"
    /\ i >= end_page
    /\ browser_open' = FALSE
    /\ open_pages' = {}
    /\ pc' = "done"
    /\ event' = "browser_closed"
    /\ UNCHANGED <<start_page, end_page, min_delay, max_delay, i, data, page,
                   fs, fs0, opened, fetches, delays, last_delay, since_fetch>>
    /\ UNCHANGED trail
    /\ steps' = steps + 1
    /\ UNCHANGED normVars
    /\ UNCHANGED mergeVars

CrawlNext ==
    \/ SkipExisting
    \/ NewPage
    \/ Goto
    \/ StepSci
    \/ StepInfo
    \/ StepCare
    \/ Save
    \/ ClosePage
    \/ Sleep
    \/ BrowserClose

SpecCrawl == CrawlInit /\ [][CrawlNext]_vars

(***************************************************************************)
(* merge_csvs(), merge_data.py:6-50.                                       *)
(***************************************************************************)
\* the lists glob.glob can return: the files of the directory in any order
FileLists == UNION {[1..n -> FilePool] : n \in 0..MaxFiles}

MergeInit ==
    /\ files \in FileLists
    /\ mpc = "glob"
    /\ j = 0
    /\ all_columns = {}
    /\ final_columns = <<>>
    /\ out \in {NoOutput, OldOutput}
    /\ out0 = out
    /\ truncs = 0
    /\ NormIdle
    /\ CrawlIdle

\* merge_data.py:10-13: no file matches, return
NothingToMerge ==
    /\ mpc = "glob"
    /\ files = <<>>
    /\ mpc' = "nothing"
    /\ UNCHANGED <<files, j, all_columns, final_columns, out, out0, truncs>>
    /\ UNCHANGED normVars
    /\ UNCHANGED crawlVars

\* merge_data.py:15-22: some file matches, start the header scan
StartScan ==
    /\ mpc = "glob"
    /\ files # <<>>
    /\ mpc' = "scan"
    /\ j' = 1
    /\ all_columns' = {}
    /\ UNCHANGED <<files, final_columns, out, out0, truncs>>
    /\ UNCHANGED normVars
    /\ UNCHANGED crawlVars

\* merge_data.py:22-28: the header of file j; only EmptyDataError is caught
ScanHeader ==
    /\ mpc = "scan"
    /\ j <= Len(files)
    /\ LET got == ReadHeader(files[j])
       IN  \/ /\ got.exc = "none"
              /\ all_columns' = all_columns \cup Elems(got.columns)
              /\ j' = j + 1
              /\ UNCHANGED mpc
           \/ /\ got.exc = "EmptyDataError"
              /\ j' = j + 1
              /\ UNCHANGED <<mpc, all_columns>>
           \/ /\ got.exc \notin {"none", "EmptyDataError"}
              /\ mpc' = "aborted"
              /\ UNCHANGED <<j, all_columns>>
    /\ UNCHANGED <<files, final_columns, out, out0, truncs>>
    /\ UNCHANGED normVars
    /\ UNCHANGED crawlVars

\* merge_data.py:30-38: sort the union, open the output for writing (which
\* truncates it) and write the header line
WriteHeader ==
    /\ mpc = "scan"
    /\ j > Len(files)
    /\ final_columns' = Sorted(all_columns)
    /\ out' = Output(<<Sorted(all_columns)>>)
    /\ truncs' = truncs + 1
    /\ mpc' = "write"
    /\ j' = 1
    /\ UNCHANGED <<files, all_columns, out0>>
    /\ UNCHANGED normVars
    /\ UNCHANGED crawlVars

\* merge_data.py:40-48: the rows of file j, reindexed and appended to the
\* open output; only EmptyDataError is caught
WriteData ==
    /\ mpc = "write"
    /\ j <= Len(files)
    /\ LET df == ReadCsv(files[j])
       IN  \/ /\ df.exc = "none"
              /\ out' = Output(out.lines \o ToCsvLines(Reindex(df, final_columns)))
              /\ j' = j + 1
              /\ UNCHANGED mpc
           \/ /\ df.exc = "EmptyDataError"
              /\ j' = j + 1
              /\ UNCHANGED <<mpc, out>>
           \/ /\ df.exc \notin {"none", "EmptyDataError"}
              /\ mpc' = "aborted"
              /\ UNCHANGED <<j, out>>
    /\ UNCHANGED <<files, all_columns, final_columns, out0, truncs>>
    /\ UNCHANGED normVars
    /\ UNCHANGED crawlVars

\* merge_data.py:48-50: every file was written, the output is closed
MergeDone ==
    /\ mpc = "write"
    /\ j > Len(files)
    /\ mpc' = "done"
    /\ UNCHANGED <<files, j, all_columns, final_columns, out, out0, truncs>>
    /\ UNCHANGED normVars
    /\ UNCHANGED crawlVars

MergeNext ==
    \/ NothingToMerge
    \/ StartScan
    \/ ScanHeader
    \/ WriteHeader
    \/ WriteData
    \/ MergeDone

SpecMerge == MergeInit /\ [][MergeNext]_vars

(***************************************************************************)
(* Properties of the crawl loop.                                           *)
(***************************************************************************)
\* the ids of the run's range
Range == start_page..(end_page - 1)

\* C1: an id whose per-page file exists when the loop reaches it is skipped
\* with no accessor opened, no fetch and no delay; files that existed at the
\* start are never changed; and a run that starts with a file for every id
\* of its range opens nothing, fetches nothing and sleeps never.
C1_ExistenceCheckIdempotent ==
    /\ [](\A k \in DOMAIN fs0 : k \in DOMAIN fs /\ fs[k] = fs0[k])
    /\ []((Range \subseteq DOMAIN fs0)
            => opened = 0 /\ fetches = 0 /\ delays = 0 /\ open_pages = {} /\ fs = fs0)
    /\ [][(pc = "loop" /\ i < end_page /\ Exists(i))
            => /\ opened' = opened /\ fetches' = fetches /\ delays' = delays
               /\ open_pages' = open_pages /\ fs' = fs
               /\ i' = i + 1 /\ pc' = "loop"]_vars

\* a finished run over at least two ids, all of which had their file
C1_Witness ==
    /\ pc = "done"
    /\ end_page - start_page >= 2
    /\ Range \subseteq DOMAIN fs0
    /\ event = "browser_closed"

\* C3: a failure at any step of an id is caught by the loop, which takes the
\* next id: the ids taken are start, start+1, ... in ascending order without
\* gaps, after a caught failure the loop is at its head with a later id, the
\* browser is closed only when the range is exhausted, a run that has not
\* finished can always take a step, and it finishes within nine steps per id.
C3_FailureNeverAborts ==
    /\ trail = [k \in 1..Len(trail) |-> start_page + k - 1]
    /\ (event = "raise" => pc = "loop" /\ i = trail[Len(trail)] + 1)
    /\ (pc = "done" => i = end_page /\ Len(trail) = end_page - start_page)
    /\ (~browser_open => pc = "done")
    /\ (pc = "done" \/ ENABLED CrawlNext)
    /\ steps <= 9 * (end_page - start_page) + 1

\* a finished run whose first id failed after its accessor was opened and
\* whose last id was then fetched and saved
C3_Witness ==
    /\ pc = "done"
    /\ end_page - start_page >= 2
    /\ start_page \notin DOMAIN fs
    /\ opened > Cardinality((DOMAIN fs) \ (DOMAIN fs0))
    /\ (end_page - 1) \in (DOMAIN fs) \ (DOMAIN fs0)

\* C6: the three extraction steps run in the order name, info, care, each
\* followed by the next whether it failed or not; the record reaching the save
\* has id and scientific_name, and the saved file is that record.
C6_GroupIsolation ==
    /\ [][(pc = "sci" => pc' = "info") /\ (pc = "info" => pc' = "care")
          /\ (pc = "care" => pc' = "save")]_vars
    /\ [](pc = "save" =>
            /\ K_id \in DOMAIN data /\ data[K_id] = IntToStr(i)
            /\ K_scientific_name \in DOMAIN data
            /\ (page.sci.ok => data[K_scientific_name] = Strip(page.sci.text)))
    /\ [](pc = "close" => i \in DOMAIN fs /\ fs[i] = data)

\* a page whose care query threw and whose name was read, just saved
C6_Witness ==
    /\ pc = "close"
    /\ ~page.careQueryOk
    /\ page.sci.ok
    /\ fs[i][K_id] = IntToStr(i)
    /\ fs[i][K_scientific_name] = <<"a", "B">>

\* C9: every accessor the loop opens is closed before the next id: at most
\* one accessor is open at any time, none at the loop head, none at the end.
C9_AccessorReleasedPerId ==
    /\ Cardinality(open_pages) <= 1
    /\ (pc \in {"loop", "done"} => open_pages = {})

\* C10: between the load of one page and the load of the next the loop has
\* slept once, for a delay within [min_delay, max_delay]; an id ends without
\* a delay only when the existence check skipped it.
C10_DelayBetweenFetches ==
    /\ (pc = "goto" => ~since_fetch)
    /\ (delays > 0 => last_delay \in min_delay..max_delay)

(***************************************************************************)
(* Properties of the merge.                                                *)
(***************************************************************************)
\* the list is strictly ascending in Python's str order
Ascending(seq) == \A k \in 1..Len(seq) : \A m \in 1..Len(seq) : k < m => StrLess(seq[k], seq[m])

\* the column names of all the files
HeaderUnion == UNION {Elems(files[n].header) : n \in 1..Len(files)}

\* every file of the merge is a well-formed per-page file
AllWellFormed == \A n \in 1..Len(files) : files[n].kind = "csv"

\* the cell text of column c in the one data row of file f
SourceCell(f, c) == f.rows[1][IndexOf(f.header, c)]

\* C2 (as stated): after a merge of well-formed per-page files the output is
\* one header, the sorted union of the files' columns, then one row per file
\* in glob order; a cell holds the file's own text for that column name, and
\* is empty exactly when the file has no such column.
C2_CellsCarriedExactly ==
    (mpc = "done" /\ AllWellFormed) =>
        /\ Len(out.lines) = 1 + Len(files)
        /\ Elems(out.lines[1]) = HeaderUnion
        /\ Ascending(out.lines[1])
        /\ \A n \in 1..Len(files) : \A k \in 1..Len(out.lines[1]) :
              LET c == out.lines[1][k]
                  cell == out.lines[n + 1][k]
              IN  /\ c \in Elems(files[n].header) => cell = SourceCell(files[n], c)
                  /\ (cell = <<>>) <=> (c \notin Elems(files[n].header))

\* C2 (amended): the same header and rows; a cell of a column the file lacks
\* is empty, and a cell of a column the file has is the file's cell for that
\* name as pandas reads and writes it back, so it is empty exactly when the
\* column is absent or the source cell reads as missing.
C2_SchemaUnification ==
    (mpc = "done" /\ AllWellFormed) =>
        /\ Len(out.lines) = 1 + Len(files)
        /\ Elems(out.lines[1]) = HeaderUnion
        /\ Ascending(out.lines[1])
        /\ \A n \in 1..Len(files) : \A k \in 1..Len(out.lines[1]) :
              LET c == out.lines[1][k]
                  cell == out.lines[n + 1][k]
                  present == c \in Elems(files[n].header)
              IN  /\ Len(out.lines[n + 1]) = Len(out.lines[1])
                  /\ present => cell = WriteCell(ReadCell(SourceCell(files[n], c)))
                  /\ (cell = <<>>) <=>
                        (~present \/ SourceCell(files[n], c) \in NaValues)
                  /\ (present /\ ReadCell(SourceCell(files[n], c)).type = "str")
                        => cell = SourceCell(files[n], c)

\* a finished merge of two files with different column sets, the first with
\* its columns in unsorted order, the second with an NA token in a cell
C2_Witness ==
    /\ mpc = "done"
    /\ files = <<CsvFile(<<Col_a, K_id>>, <<<<"B">>, <<"4">>>>),
                 CsvFile(<<K_id, Col_ab>>, <<<<"6">>, <<"n", "/", "a">>>>)>>
    /\ out.lines = <<<<Col_a, Col_ab, K_id>>,
                     <<<<"B">>, <<>>, <<"4">>>>,
                     <<<<>>, <<>>, <<"6">>>>>>

\* C4: no input file aborts the merge: a file that is empty or does not
\* parse, in either pass, is skipped, and the finished output has the header
\* and one row for every well-formed file.
C4_BadFileSkipped ==
    /\ mpc # "aborted"
    /\ (mpc = "done" =>
          Len(out.lines) = 1 + Cardinality({n \in 1..Len(files) : files[n].kind = "csv"}))

\* C5: with no input file the merge never opens the output, which stays as
\* it was; with at least one input file a merge that has ended has opened
\* the output once, truncating it, and the output is the new header and rows.
C5_NoOpOrRewrite ==
    /\ (files = <<>> => out = out0 /\ truncs = 0)
    /\ ((files # <<>> /\ mpc \in {"done", "aborted"}) =>
          /\ truncs = 1
          /\ out.exists
          /\ out.lines[1] = final_columns
          /\ Len(out.lines) <= 1 + Len(files))

(***************************************************************************)
(* Properties of the extractors.                                           *)
(***************************************************************************)
\* C7: a care block with a non-empty label and value is stored under the
\* cleaned label with the value trimmed (newlines folded to spaces) and its
\* letters' case kept.
C7_CareValueKeepsCase ==
    (nstep = "care" /\ CareCleanLabel(lab) # <<>> /\ Strip(val) # <<>>) =>
        /\ CareCleanLabel(lab) \in DOMAIN care_data
        /\ care_data[CareCleanLabel(lab)] = Strip(Replace(Strip(val), NL, SP))

\* C8: cleaning a cleaned label changes nothing, for the labels stored by
\* extract_plant_info and for those stored by extract_care_description.
C8_LabelCleaningIdempotent ==
    /\ (nstep \in {"info", "care"} =>
          \A k \in DOMAIN info_data : InfoCleanLabel(k) = k)
    /\ (nstep = "care" =>
          \A k \in DOMAIN care_data : CareCleanLabel(k) = k)

====
